---- MODULE Spec2Model ----
(***************************************************************************)
(* A model of the history ring (utils/history_buffer.py, HistoryBuffer)    *)
(* and of the translation orchestrator that records into it                *)
(* (translator.py, Translator).                                            *)
(*                                                                         *)
(* Text is modelled as a sequence of one-character strings, so that the    *)
(* separator test (`delimiter in content`), the append to the storage      *)
(* location and str.split are computed character by character.             *)
(***************************************************************************)
EXTENDS Integers, Sequences, FiniteSets, TLC

VARIABLES
    ring,       \* the HistoryBuffer object: _buffer_size, _file_path, _delimiter, _buffer
    disk,       \* the file at the storage location: exists, readable, text
    last,       \* the most recent call on the ring and its outcome
    appended,   \* history: the entries loaded at construction, then every string pushed
    logged,     \* history: the separator-free strings pushed to rings that have a storage location
    clean,      \* history: the location was absent or empty at first and no push has raised since
    rings,      \* how many rings have been constructed against the location
    npush,      \* how many push calls have been made
    tr          \* the Translator: its position in translate() and what it holds

vars == <<ring, disk, last, appended, logged, clean, rings, npush, tr>>

----------------------------------------------------------------------------
(* Bounds of the model.                                                    *)

MaxCap == 2         \* buffer_size ranges over 0..MaxCap
MaxPush == 2        \* push calls made on the rings of one location
MaxRings == 2       \* rings constructed one after the other against one location
MaxCalls == 2       \* translate() calls on one Translator
MaxPieces == 2      \* pieces the collaborator's reply is made of

\* max_length ranges over -1..MaxGet, and None: past every buffer_size.
MaxGet == MaxCap + 1

----------------------------------------------------------------------------
(* Text.                                                                   *)

\* A value that is not a str (push raises TypeError on it).
NotAStr == <<"NotAStr">>

\* isinstance(content, str)
IsStr(content) == content # NotAStr

\* What a caller pushes: the empty string, strings that hold no separator, one
\* or the other separator, and a value that is no string.
Contents == {<<>>, <<"a">>, <<"|">>, <<"|", "|">>, <<"|", "a">>, NotAStr}

\* The separators a ring is constructed with: one character, two characters
\* that overlap themselves, two characters that do not.
Delimiters == {<<"|">>, <<"|", "|">>, <<"|", "a">>}

\* file_path: None, a bare file name, a name inside a directory.
NoPath == <<"None">>
Paths == {NoPath, <<"f">>, <<"d", "/", "f">>}

\* First index at or after `from` where `d` occurs in `s`, 0 if none.
RECURSIVE Find(_, _, _)
Find(s, d, from) ==
    IF from + Len(d) - 1 > Len(s) THEN 0
    ELSE IF SubSeq(s, from, from + Len(d) - 1) = d THEN from
    ELSE Find(s, d, from + 1)

\* `d in s` for two str
Contains(s, d) == Find(s, d, 1) # 0

\* s.split(d): the segments between the occurrences of d, found left to right
\* without overlap; always at least one segment.
RECURSIVE Split(_, _)
Split(s, d) ==
    LET i == Find(s, d, 1)
    IN  IF i = 0 THEN <<s>>
        ELSE <<SubSeq(s, 1, i - 1)>> \o Split(SubSeq(s, i + Len(d), Len(s)), d)

\* xs[-n:] for n >= 0. Python reads -0 as 0, so xs[-0:] is the whole of xs.
NegSlice(xs, n) ==
    IF n = 0 \/ n >= Len(xs) THEN xs
    ELSE SubSeq(xs, Len(xs) - n + 1, Len(xs))

\* xs[1:]
DropFirst(xs) == SubSeq(xs, 2, Len(xs))

\* os.path.dirname(p): what precedes the last "/" ("" when there is none).
RECURSIVE LastSlash(_, _)
LastSlash(p, i) ==
    IF i = 0 THEN 0
    ELSE IF p[i] = "/" THEN i
    ELSE LastSlash(p, i - 1)

Dirname(p) == SubSeq(p, 1, LastSlash(p, Len(p)) - 1)

----------------------------------------------------------------------------
(* The storage location.                                                   *)

NoFile == [exists |-> FALSE, readable |-> FALSE, text |-> <<>>]

\* open(path, 'r') succeeds: the path names a file that exists and may be read.
CanOpenForRead(path, fs) == path # NoPath /\ fs.exists /\ fs.readable

\* __read_file whose except clause returns [''] (what "".split gives).
read_file_EmptyEntry(self, fs) ==
    IF CanOpenForRead(self.file_path, fs)
    THEN DropFirst(Split(fs.text, self.delimiter))
    ELSE <<<<>>>>

\* HistoryBuffer.__read_file
read_file(self, fs) ==
    IF CanOpenForRead(self.file_path, fs)
    THEN DropFirst(Split(fs.text, self.delimiter))
    ELSE <<>>

\* __flush_to_file opening the file with mode 'w' for 'a'.
flush_to_file_Truncate(self, fs, content) ==
    IF Dirname(self.file_path) = <<>>
    THEN [fs |-> fs, raised |-> "FileNotFoundError"]
    ELSE [fs |-> [exists |-> TRUE,
                  readable |-> IF fs.exists THEN fs.readable ELSE TRUE,
                  text |-> self.delimiter \o content],
          raised |-> "none"]

\* HistoryBuffer.__flush_to_file: os.makedirs raises FileNotFoundError on an
\* empty directory name; otherwise the separator and the content are appended,
\* creating the file when it is missing (a file that may not be read may
\* still be appended to).
flush_to_file(self, fs, content) ==
    IF Dirname(self.file_path) = <<>>
    THEN [fs |-> fs, raised |-> "FileNotFoundError"]
    ELSE [fs |-> [exists |-> TRUE,
                  readable |-> IF fs.exists THEN fs.readable ELSE TRUE,
                  text |-> fs.text \o self.delimiter \o content],
          raised |-> "none"]

----------------------------------------------------------------------------
(* HistoryBuffer.                                                          *)

\* `if file_path` : a path that is neither None nor "".
Truthy(path) == path # NoPath /\ path # <<>>

\* HistoryBuffer.__init__ (with valid arguments)
HistoryBuffer(buffer_size, file_path, delimiter, fs) ==
    LET self == [buffer_size |-> buffer_size, file_path |-> file_path,
                 delimiter |-> delimiter, buffer |-> <<>>]
    IN  IF Truthy(file_path) /\ buffer_size > 0
        THEN [self EXCEPT !.buffer = NegSlice(read_file(self, fs), buffer_size)]
        ELSE self

\* push with the trim to buffer_size left out.
push_NoTrim(self, fs, content) ==
    IF ~IsStr(content)
    THEN [buffer |-> self.buffer, fs |-> fs, raised |-> "TypeError"]
    ELSE LET buf == IF self.buffer_size > 0
                    THEN Append(self.buffer, content)
                    ELSE self.buffer
         IN  IF self.file_path # NoPath
             THEN IF Contains(content, self.delimiter)
                  THEN [buffer |-> buf, fs |-> fs, raised |-> "ValueError"]
                  ELSE LET w == flush_to_file(self, fs, content)
                       IN  [buffer |-> buf, fs |-> w.fs, raised |-> w.raised]
             ELSE [buffer |-> buf, fs |-> fs, raised |-> "none"]

\* push trimming from the wrong end: buffer[:buffer_size] for buffer[-buffer_size:].
push_KeepOldest(self, fs, content) ==
    IF ~IsStr(content)
    THEN [buffer |-> self.buffer, fs |-> fs, raised |-> "TypeError"]
    ELSE LET buf == IF self.buffer_size > 0
                    THEN SubSeq(Append(self.buffer, content), 1,
                                IF Len(self.buffer) + 1 < self.buffer_size
                                THEN Len(self.buffer) + 1 ELSE self.buffer_size)
                    ELSE self.buffer
         IN  IF self.file_path # NoPath
             THEN IF Contains(content, self.delimiter)
                  THEN [buffer |-> buf, fs |-> fs, raised |-> "ValueError"]
                  ELSE LET w == flush_to_file(self, fs, content)
                       IN  [buffer |-> buf, fs |-> w.fs, raised |-> w.raised]
             ELSE [buffer |-> buf, fs |-> fs, raised |-> "none"]

\* push writing to the file before it tests the content for the separator.
push_FlushFirst(self, fs, content) ==
    IF ~IsStr(content)
    THEN [buffer |-> self.buffer, fs |-> fs, raised |-> "TypeError"]
    ELSE LET buf == IF self.buffer_size > 0
                    THEN NegSlice(Append(self.buffer, content), self.buffer_size)
                    ELSE self.buffer
         IN  IF self.file_path # NoPath
             THEN LET w == flush_to_file(self, fs, content)
                  IN  IF w.raised # "none"
                      THEN [buffer |-> buf, fs |-> w.fs, raised |-> w.raised]
                      ELSE IF Contains(content, self.delimiter)
                      THEN [buffer |-> buf, fs |-> w.fs, raised |-> "ValueError"]
                      ELSE [buffer |-> buf, fs |-> w.fs, raised |-> "none"]
             ELSE [buffer |-> buf, fs |-> fs, raised |-> "none"]

\* HistoryBuffer.push: the buffer and the file after the call, and what it raised.
push(self, fs, content) ==
    IF ~IsStr(content)
    THEN [buffer |-> self.buffer, fs |-> fs, raised |-> "TypeError"]
    ELSE LET buf == IF self.buffer_size > 0
                    THEN NegSlice(Append(self.buffer, content), self.buffer_size)
                    ELSE self.buffer
         IN  IF self.file_path # NoPath
             THEN IF Contains(content, self.delimiter)
                  THEN [buffer |-> buf, fs |-> fs, raised |-> "ValueError"]
                  ELSE LET w == flush_to_file(self, fs, content)
                       IN  [buffer |-> buf, fs |-> w.fs, raised |-> w.raised]
             ELSE [buffer |-> buf, fs |-> fs, raised |-> "none"]

\* max_length as the caller gives it: None, or an int.
None == [none |-> TRUE, int |-> 0]
AnInt(n) == [none |-> FALSE, int |-> n]
MaxLengths == {None} \cup {AnInt(n) : n \in -1..MaxGet}

\* get that never falls through to the file.
get_BufferOnly(self, fs, max_length) ==
    IF ~max_length.none /\ max_length.int < 0
    THEN [ret |-> <<>>, raised |-> "ValueError", read |-> FALSE,
                  buffer |-> self.buffer, fs |-> fs]
    ELSE LET n == IF max_length.none THEN self.buffer_size ELSE max_length.int
         IN  IF n = 0
             THEN [ret |-> <<>>, raised |-> "none", read |-> FALSE,
                  buffer |-> self.buffer, fs |-> fs]
             ELSE [ret |-> NegSlice(self.buffer, n), raised |-> "none", read |-> FALSE,
                  buffer |-> self.buffer, fs |-> fs]

\* get with the test `self._file_path is None` left out.
get_NoPathTest(self, fs, max_length) ==
    IF ~max_length.none /\ max_length.int < 0
    THEN [ret |-> <<>>, raised |-> "ValueError", read |-> FALSE,
                  buffer |-> self.buffer, fs |-> fs]
    ELSE LET n == IF max_length.none THEN self.buffer_size ELSE max_length.int
         IN  IF n = 0
             THEN [ret |-> <<>>, raised |-> "none", read |-> FALSE,
                  buffer |-> self.buffer, fs |-> fs]
             ELSE IF n <= Len(self.buffer)
             THEN [ret |-> NegSlice(self.buffer, n), raised |-> "none", read |-> FALSE,
                  buffer |-> self.buffer, fs |-> fs]
             ELSE [ret |-> NegSlice(read_file(self, fs), n), raised |-> "none", read |-> TRUE,
                  buffer |-> self.buffer, fs |-> fs]

\* get with the early return on max_length == 0 left out.
get_NoZeroTest(self, fs, max_length) ==
    IF ~max_length.none /\ max_length.int < 0
    THEN [ret |-> <<>>, raised |-> "ValueError", read |-> FALSE,
                  buffer |-> self.buffer, fs |-> fs]
    ELSE LET n == IF max_length.none THEN self.buffer_size ELSE max_length.int
         IN  IF n <= Len(self.buffer) \/ self.file_path = NoPath
             THEN [ret |-> NegSlice(self.buffer, n), raised |-> "none", read |-> FALSE,
                  buffer |-> self.buffer, fs |-> fs]
             ELSE [ret |-> NegSlice(read_file(self, fs), n), raised |-> "none", read |-> TRUE,
                  buffer |-> self.buffer, fs |-> fs]

\* get that keeps what it read from the file as the new buffer.
get_Refresh(self, fs, max_length) ==
    IF ~max_length.none /\ max_length.int < 0
    THEN [ret |-> <<>>, raised |-> "ValueError", read |-> FALSE,
                  buffer |-> self.buffer, fs |-> fs]
    ELSE LET n == IF max_length.none THEN self.buffer_size ELSE max_length.int
         IN  IF n = 0
             THEN [ret |-> <<>>, raised |-> "none", read |-> FALSE,
                  buffer |-> self.buffer, fs |-> fs]
             ELSE IF n <= Len(self.buffer) \/ self.file_path = NoPath
             THEN [ret |-> NegSlice(self.buffer, n), raised |-> "none", read |-> FALSE,
                  buffer |-> self.buffer, fs |-> fs]
             ELSE [ret |-> NegSlice(read_file(self, fs), n), raised |-> "none", read |-> TRUE,
                  buffer |-> NegSlice(read_file(self, fs), n), fs |-> fs]

\* HistoryBuffer.get: what it returns or raises, whether it read the file, and
\* the buffer and the file after the call.
get(self, fs, max_length) ==
    IF ~max_length.none /\ max_length.int < 0
    THEN [ret |-> <<>>, raised |-> "ValueError", read |-> FALSE,
                  buffer |-> self.buffer, fs |-> fs]
    ELSE LET n == IF max_length.none THEN self.buffer_size ELSE max_length.int
         IN  IF n = 0
             THEN [ret |-> <<>>, raised |-> "none", read |-> FALSE,
                  buffer |-> self.buffer, fs |-> fs]
             ELSE IF n <= Len(self.buffer) \/ self.file_path = NoPath
             THEN [ret |-> NegSlice(self.buffer, n), raised |-> "none", read |-> FALSE,
                  buffer |-> self.buffer, fs |-> fs]
             ELSE [ret |-> NegSlice(read_file(self, fs), n), raised |-> "none", read |-> TRUE,
                  buffer |-> self.buffer, fs |-> fs]

----------------------------------------------------------------------------
(* The ring driven by a caller.                                            *)

\* What the location holds before the first ring: nothing, an empty file,
\* text from before log-keeping followed by two entries (the second one
\* empty), or a log of one entry that cannot be read.
InitTexts(d) == {<<>>, <<"a">> \o d \o <<"a">> \o d}

InitDisks(d) ==
    {NoFile, [exists |-> TRUE, readable |-> FALSE, text |-> d \o <<"a">>]}
        \cup {[exists |-> TRUE, readable |-> TRUE, text |-> t] : t \in InitTexts(d)}

\* No Translator is at work where the ring is driven directly.
Idle == [pc |-> "none"]

\* A call on the ring: its arguments, its outcome, and the buffer and the file
\* as they were when it began.
NoCall(op) ==
    [op |-> op, content |-> <<>>, max_length |-> None, ret |-> <<>>,
     raised |-> "none", read |-> FALSE, buffer0 |-> <<>>, disk0 |-> NoFile]

\* A first ring is constructed against a location in any initial condition.
Init ==
    \E c \in 0..MaxCap, p \in Paths, d \in Delimiters :
      \E fs \in InitDisks(d) :
        /\ (p = NoPath => fs = NoFile)
        /\ ring = HistoryBuffer(c, p, d, fs)
        /\ disk = fs
        /\ last = [NoCall("init") EXCEPT !.disk0 = fs]
        /\ appended = ring.buffer
        /\ logged = <<>>
        /\ clean = (fs.text = <<>>)
        /\ rings = 1
        /\ npush = 0
        /\ tr = Idle

\* A push call on the ring, with the history kept about it.
RingPush(content) ==
    /\ LET r == push(ring, disk, content)
       IN  /\ ring' = [ring EXCEPT !.buffer = r.buffer]
           /\ disk' = r.fs
           /\ last' = [NoCall("push") EXCEPT !.content = content, !.raised = r.raised,
                                             !.buffer0 = ring.buffer, !.disk0 = disk]
           /\ clean' = (clean /\ r.raised = "none")
    /\ appended' = IF IsStr(content) THEN Append(appended, content) ELSE appended
    /\ logged' = IF /\ IsStr(content)
                    /\ ring.file_path # NoPath
                    /\ ~Contains(content, ring.delimiter)
                 THEN Append(logged, content)
                 ELSE logged
    /\ npush' = npush + 1
    /\ UNCHANGED rings

\* A get call on the ring.
RingGet(max_length) ==
    /\ LET r == get(ring, disk, max_length)
       IN  /\ last' = [NoCall("get") EXCEPT !.max_length = max_length, !.ret = r.ret,
                                            !.raised = r.raised, !.read = r.read,
                                            !.buffer0 = ring.buffer, !.disk0 = disk]
           /\ ring' = [ring EXCEPT !.buffer = r.buffer]
           /\ disk' = r.fs
    /\ UNCHANGED <<appended, logged, clean, rings, npush>>

\* The caller pushes `content`.
Push(content) ==
    /\ npush < MaxPush
    /\ RingPush(content)
    /\ UNCHANGED tr

\* The caller asks for the recent entries.
Get(max_length) ==
    /\ RingGet(max_length)
    /\ UNCHANGED tr

\* The ring is abandoned and a new one is constructed with the same arguments
\* (history_buffer.py, lines 113 and 122).
Reopen ==
    /\ rings < MaxRings
    /\ ring' = HistoryBuffer(ring.buffer_size, ring.file_path, ring.delimiter, disk)
    /\ last' = [NoCall("init") EXCEPT !.buffer0 = ring.buffer, !.disk0 = disk]
    /\ appended' = ring'.buffer
    /\ rings' = rings + 1
    /\ UNCHANGED <<disk, logged, clean, npush, tr>>

Next ==
    \/ \E content \in Contents : Push(content)
    \/ \E max_length \in MaxLengths : Get(max_length)
    \/ Reopen

Spec == Init /\ [][Next]_vars

----------------------------------------------------------------------------
(* Translator.                                                             *)
(*                                                                         *)
(* The collaborator's reply is a sequence of lexical units: "{", "}", a     *)
(* space, a newline, the key with its colon ("translated_text":), a string  *)
(* literal, a number literal, and other text. The pattern of translate()    *)
(* tells braces and white space from the rest; json.loads reads the units.  *)
(* String literals and other text hold no brace and no white space.         *)

Key == "\"translated_text\":"
StringLiterals == {"\"b\"", "\"c\""}
Number == "1"
Other == "x"
WhiteSpace == {" ", "\n"}

\* The text a string literal stands for.
Decode(lit) == IF lit = "\"b\"" THEN <<"b">> ELSE <<"c">>

\* What the replies are put together from: whole objects and single units.
Pieces ==
    {<<"{", Key, "\"b\"", "}">>, <<"{", Key, " ", "\"c\"", "}">>, <<"{", Key, Number, "}">>,
     <<"{", "}">>, <<"{">>, <<"}">>, <<" ">>, <<"\n">>, <<Other>>}

RECURSIVE RepliesOf(_)
RepliesOf(n) ==
    IF n = 0 THEN {<<>>}
    ELSE LET shorter == RepliesOf(n - 1)
         IN  shorter \cup {r \o p : r \in shorter, p \in Pieces}

Replies == RepliesOf(MaxPieces)

\* First index at or after i of a unit that is not white space (Len + 1 if none).
RECURSIVE SkipSpace(_, _)
SkipSpace(reply, i) ==
    IF i > Len(reply) THEN i
    ELSE IF reply[i] \in WhiteSpace THEN SkipSpace(reply, i + 1)
    ELSE i

\* The lookahead (?=\s*\{|$) after the unit at j: white space then "{", or the
\* end of the text, or a last newline before the end.
LookAhead(reply, j) ==
    \/ LET k == SkipSpace(reply, j + 1) IN k <= Len(reply) /\ reply[k] = "{"
    \/ j = Len(reply)
    \/ (j = Len(reply) - 1 /\ reply[Len(reply)] = "\n")

\* \{.*?\} from the "{" at i: the first "}" after it where the lookahead
\* succeeds; 0 if there is none.
RECURSIVE MatchEnd(_, _)
MatchEnd(reply, j) ==
    IF j > Len(reply) THEN 0
    ELSE IF reply[j] = "}" /\ LookAhead(reply, j) THEN j
    ELSE MatchEnd(reply, j + 1)

\* pattern.findall(reply) from i on: the matches, left to right, no overlap.
RECURSIVE FindAll(_, _)
FindAll(reply, i) ==
    IF i > Len(reply) THEN <<>>
    ELSE LET j == IF reply[i] = "{" THEN MatchEnd(reply, i + 1) ELSE 0
         IN  IF j # 0
             THEN <<SubSeq(reply, i, j)>> \o FindAll(reply, j + 1)
             ELSE FindAll(reply, i + 1)

\* The units of js that are not white space.
RECURSIVE Solid(_)
Solid(js) ==
    IF js = <<>> THEN <<>>
    ELSE IF Head(js) \in WhiteSpace THEN Solid(Tail(js))
    ELSE <<Head(js)>> \o Solid(Tail(js))

\* json.loads accepts the units t as an object: "{" "}" or "{" key value "}",
\* the value a string, a number or an object.
RECURSIVE IsJsonObject(_)
IsJsonObject(t) ==
    /\ Len(t) >= 2
    /\ t[1] = "{"
    /\ t[Len(t)] = "}"
    /\ \/ Len(t) = 2
       \/ /\ Len(t) >= 4
          /\ t[2] = Key
          /\ \/ (Len(t) = 4 /\ t[3] \in StringLiterals \cup {Number})
             \/ IsJsonObject(SubSeq(t, 3, Len(t) - 1))

\* json.loads(js) and the test on parsed_json["translated_text"]: the string,
\* when js is an object that has the key with a string for its value.
Parsed(js) ==
    LET t == Solid(js)
    IN  IF IsJsonObject(t) /\ Len(t) = 4 /\ t[3] \in StringLiterals
        THEN [ok |-> TRUE, text |-> Decode(t[3])]
        ELSE [ok |-> FALSE, text |-> <<>>]

\* The loop with `continue` for the failure branches: a fragment that fails
\* is skipped and the others are kept.
RECURSIVE Collect_SkipFailed(_)
Collect_SkipFailed(matched_jsons) ==
    IF matched_jsons = <<>> THEN [none |-> FALSE, texts |-> <<>>]
    ELSE LET first == Parsed(Head(matched_jsons))
             rest == Collect_SkipFailed(Tail(matched_jsons))
         IN  IF first.ok
             THEN [none |-> FALSE, texts |-> <<first.text>> \o rest.texts]
             ELSE rest

\* The loop of translate() over matched_jsons: the strings collected, or None
\* as soon as one fragment fails.
RECURSIVE Collect(_)
Collect(matched_jsons) ==
    IF matched_jsons = <<>> THEN [none |-> FALSE, texts |-> <<>>]
    ELSE LET first == Parsed(Head(matched_jsons))
             rest == Collect(Tail(matched_jsons))
         IN  IF ~first.ok \/ rest.none
             THEN [none |-> TRUE, texts |-> <<>>]
             ELSE [none |-> FALSE, texts |-> <<first.text>> \o rest.texts]

\* '\n'.join(texts)
RECURSIVE Join(_)
Join(texts) ==
    IF texts = <<>> THEN <<>>
    ELSE IF Len(texts) = 1 THEN texts[1]
    ELSE texts[1] \o <<"\n">> \o Join(Tail(texts))

\* translated_text as translate() computes it from the reply.
TranslatedText(target, reply) ==
    LET got == Collect(FindAll(reply, 1))
    IN  IF got.none THEN target ELSE Join(got.texts)

\* repr(text) for a str without quotes: a newline becomes backslash, n.
RECURSIVE Escaped(_)
Escaped(text) ==
    IF text = <<>> THEN <<>>
    ELSE (IF Head(text) = "\n" THEN <<"\\", "n">> ELSE <<Head(text)>>) \o Escaped(Tail(text))

Repr(text) == <<"'">> \o Escaped(text) \o <<"'">>

\* str(result) for result = {"original_text": ..., "translated_text": ...}
StrOfResult(result) ==
    <<"{", "'", "o", "r", "i", "g", "i", "n", "a", "l", "_", "t", "e", "x", "t", "'", ":", " ">>
        \o Repr(result.original_text)
        \o <<",", " ", "'", "t", "r", "a", "n", "s", "l", "a", "t", "e", "d", "_",
             "t", "e", "x", "t", "'", ":", " ">>
        \o Repr(result.translated_text)
        \o <<"}">>

\* The default separator of HistoryBuffer, which Translator leaves in place.
DefaultDelimiter ==
    <<"\n", "_", "_", "_", "_", "I", "_", "L", "O", "V", "E", "_", "Y", "O", "U", "_",
      "H", "U", "Y", "E", "N", "_", "_", "_", "_">>

\* The segments a caller has translated.
Targets == {<<"t">>, <<" ", "t", "\n">>}

NoResult == [original_text |-> <<>>, translated_text |-> <<>>]

\* Translator.__init__: preceding_context_length and history_file_path go to
\* the ring; the location holds nothing yet, or the log of an earlier run.
TranslatorInit ==
    \E c \in 0..MaxCap, p \in Paths :
      \E fs \in {NoFile,
                 [exists |-> TRUE, readable |-> TRUE,
                  text |-> DefaultDelimiter \o <<"o", "l", "d">>]} :
        /\ (p = NoPath => fs = NoFile)
        /\ ring = HistoryBuffer(c, p, DefaultDelimiter, fs)
        /\ disk = fs
        /\ last = [NoCall("init") EXCEPT !.disk0 = fs]
        /\ appended = ring.buffer
        /\ logged = <<>>
        /\ clean = (fs.text = <<>>)
        /\ rings = 1
        /\ npush = 0
        /\ tr = [pc |-> "idle", calls |-> 0, target |-> <<>>, include |-> FALSE,
                 context |-> <<>>, reply |-> <<>>, result |-> NoResult, raised |-> "none"]

\* translate(), lines 102-113: the context is fetched and the messages built.
Fetch(target, include_preceding_context) ==
    /\ tr.pc = "idle"
    /\ tr.calls < MaxCalls
    /\ IF include_preceding_context
       THEN /\ RingGet(None)
            /\ tr' = [tr EXCEPT !.pc = "invoke", !.target = target, !.include = TRUE,
                                !.context = get(ring, disk, None).ret,
                                !.reply = <<>>, !.result = NoResult, !.raised = "none"]
       ELSE /\ UNCHANGED <<ring, disk, last, appended, logged, clean, rings, npush>>
            /\ tr' = [tr EXCEPT !.pc = "invoke", !.target = target, !.include = FALSE,
                                !.context = <<>>,
                                !.reply = <<>>, !.result = NoResult, !.raised = "none"]

\* translate(), lines 115-117: the collaborator answers.
Invoke(reply) ==
    /\ tr.pc = "invoke"
    /\ tr' = [tr EXCEPT !.pc = "extract", !.reply = reply]
    /\ UNCHANGED <<ring, disk, last, appended, logged, clean, rings, npush>>

\* translate() recording the result only when a translation was extracted.
Finish_NoPushOnFallback ==
    /\ tr.pc = "extract"
    /\ LET result == [original_text |-> tr.target,
                      translated_text |-> TranslatedText(tr.target, tr.reply)]
           raised == push(ring, disk, StrOfResult(result)).raised
       IN  IF Collect(FindAll(tr.reply, 1)).none
           THEN /\ tr' = [tr EXCEPT !.pc = "idle", !.calls = tr.calls + 1,
                                    !.result = result, !.raised = "none"]
                /\ UNCHANGED <<ring, disk, last, appended, logged, clean, rings, npush>>
           ELSE /\ RingPush(StrOfResult(result))
                /\ tr' = [tr EXCEPT !.pc = "idle", !.calls = tr.calls + 1,
                                    !.result = IF raised = "none" THEN result ELSE NoResult,
                                    !.raised = raised]

\* translate(), lines 119-150: the result is extracted, pushed and returned
\* (or the push raises, and translate() with it).
Finish ==
    /\ tr.pc = "extract"
    /\ LET result == [original_text |-> tr.target,
                      translated_text |-> TranslatedText(tr.target, tr.reply)]
           raised == push(ring, disk, StrOfResult(result)).raised
       IN  /\ RingPush(StrOfResult(result))
           /\ tr' = [tr EXCEPT !.pc = "idle", !.calls = tr.calls + 1,
                               !.result = IF raised = "none" THEN result ELSE NoResult,
                               !.raised = raised]

\* A Translator called MaxCalls times, the collaborator answering with one
\* piece or with nothing.
TranslatorNext ==
    \/ \E target \in Targets, include \in BOOLEAN : Fetch(target, include)
    \/ \E reply \in RepliesOf(1) : Invoke(reply)
    \/ Finish

TranslatorSpec == TranslatorInit /\ [][TranslatorNext]_vars

\* One translate() call, the collaborator answering with up to MaxPieces
\* pieces: what translate() extracts depends on the target and the reply alone.
ExtractionNext ==
    \/ \E target \in Targets, include \in BOOLEAN : tr.calls = 0 /\ Fetch(target, include)
    \/ \E reply \in Replies : Invoke(reply)
    \/ Finish

ExtractionSpec == TranslatorInit /\ [][ExtractionNext]_vars

----------------------------------------------------------------------------
(* Properties of the ring.                                                 *)

Min(a, b) == IF a < b THEN a ELSE b

\* The last min(n, Len(xs)) elements of xs, in order.
LastN(xs, n) == SubSeq(xs, Len(xs) - Min(n, Len(xs)) + 1, Len(xs))

\* The number of entries the last get call was to return: max_length, or
\* buffer_size when max_length was absent.
Requested == IF last.max_length.none THEN ring.buffer_size ELSE last.max_length.int

HasStorage == ring.file_path # NoPath

\* The entries of the persistent log: the file's text split on the separator,
\* the first segment discarded.
LogEntries == IF disk.exists THEN DropFirst(Split(disk.text, ring.delimiter)) ELSE <<>>

\* The same, as far as the file can be read.
ReadableEntries == IF disk.exists /\ disk.readable THEN LogEntries ELSE <<>>

\* C1: in every reachable state the buffer holds at most buffer_size entries,
\* and it is the most recent entries appended (those loaded at construction,
\* then every string pushed, pushes that raised included), oldest first.
C1_BufferIsBoundedTail ==
    /\ Len(ring.buffer) <= ring.buffer_size
    /\ ring.buffer = LastN(appended, ring.buffer_size)

\* A push, one that raised, has just dropped the oldest entry of a full buffer.
C1_Witness ==
    /\ last.op = "push"
    /\ last.raised = "ValueError"
    /\ ring.buffer_size > 0
    /\ Len(last.buffer0) = ring.buffer_size
    /\ ring.buffer = Append(DropFirst(last.buffer0), last.content)

C3_ReloadRoundTrip ==
    (/\ last.op = "init"
     /\ rings > 1
     /\ clean
     /\ HasStorage
     /\ ring.buffer_size > 0)
    => get(ring, disk, None).ret = LastN(logged, ring.buffer_size)

\* C4 (as claimed): a push that raises the validation error for a separator
\* in the content leaves the buffer as it was before the call.
C4_FailedPushLeavesBuffer ==
    (/\ last.op = "push"
     /\ last.raised = "ValueError"
     /\ HasStorage
     /\ ring.buffer_size > 0)
    => ring.buffer = last.buffer0

\* C5: with a storage location, a push of a string that holds the separator
\* raises the validation error and leaves the file as it was, whatever the
\* capacity.
C5_SeparatorRejected ==
    (/\ last.op = "push"
     /\ HasStorage
     /\ IsStr(last.content)
     /\ Contains(last.content, ring.delimiter))
    => /\ last.raised = "ValueError"
       /\ disk = last.disk0

\* Such a push on a ring of capacity 0 whose file holds a log already.
C5_Witness ==
    /\ last.op = "push"
    /\ HasStorage
    /\ IsStr(last.content)
    /\ Contains(last.content, ring.delimiter)
    /\ ring.buffer_size = 0
    /\ disk.exists
    /\ disk.text # <<>>

\* C6 (as claimed): for a ring with capacity > 0 and a storage location that
\* can be written (its directory can be made) and read (the file is readable,
\* or not there yet), the buffer is the last min(capacity, number of log
\* entries) entries of the log.
C6_BufferIsLogTail ==
    (/\ HasStorage
     /\ ring.buffer_size > 0
     /\ Dirname(ring.file_path) # <<>>
     /\ (disk.exists => disk.readable))
    => ring.buffer = LastN(LogEntries, ring.buffer_size)

\* C7: with a storage location, a get that asks for more entries than the
\* buffer holds returns the last min(asked, number of log entries) entries
\* parsed from the file, in order.
C7_ReadThrough ==
    (/\ last.op = "get"
     /\ last.raised = "none"
     /\ HasStorage
     /\ Requested > Len(ring.buffer))
    => /\ last.ret = LastN(ReadableEntries, Requested)
       /\ Len(last.ret) = Min(Requested, Len(ReadableEntries))

\* Such a get returned more entries than the capacity lets the buffer hold.
C7_Witness ==
    /\ last.op = "get"
    /\ HasStorage
    /\ ring.buffer_size > 0
    /\ Requested > Len(ring.buffer)
    /\ Len(ring.buffer) = ring.buffer_size
    /\ Len(last.ret) > ring.buffer_size
    /\ npush > 0

\* C8: with no storage location, get(m) for m >= 1 returns the last
\* min(m, k) entries of the buffer, k the number of entries it holds.
C8_ClampedToBuffer ==
    (/\ last.op = "get"
     /\ ~HasStorage
     /\ ~last.max_length.none
     /\ last.max_length.int >= 1)
    => /\ last.raised = "none"
       /\ last.ret = LastN(ring.buffer, last.max_length.int)
       /\ Len(last.ret) = Min(last.max_length.int, Len(ring.buffer))

\* get(m) asked for more than a non-empty buffer holds.
C8_Witness ==
    /\ last.op = "get"
    /\ ~HasStorage
    /\ ~last.max_length.none
    /\ last.max_length.int > Len(ring.buffer)
    /\ Len(ring.buffer) = 2
    /\ last.ret = ring.buffer

\* C10: get(0), and get() on a ring of capacity 0, return the empty sequence
\* and do not read the file.
C10_ZeroReadsNothing ==
    (/\ last.op = "get"
     /\ (last.max_length = AnInt(0) \/ (last.max_length = None /\ ring.buffer_size = 0)))
    => /\ last.raised = "none"
       /\ last.ret = <<>>
       /\ ~last.read

\* get(0) on a ring whose buffer and whose file both hold entries.
C10_Witness ==
    /\ last.op = "get"
    /\ last.max_length = AnInt(0)
    /\ HasStorage
    /\ ring.buffer # <<>>
    /\ ReadableEntries # <<>>

\* C11 (as claimed): when the location was absent or empty at first and every
\* push since was of a string without the separator and did not fail, the
\* file parses to exactly the strings pushed, in order.
C11_LogParsesToPushed ==
    (clean /\ HasStorage) => LogEntries = logged

\* xs is a prefix of ys.
IsPrefix(xs, ys) == Len(xs) <= Len(ys) /\ SubSeq(ys, 1, Len(xs)) = xs

\* C12: in every step the file's text keeps its earlier text as a prefix and
\* a file that exists stays; the file changes only in a push that did not
\* raise, which appends the separator and then the entry.
C12_LogOnlyGrows ==
    [][/\ IsPrefix(disk.text, disk'.text)
       /\ (disk.exists => disk'.exists)
       /\ (disk' # disk =>
              /\ last'.op = "push"
              /\ last'.raised = "none"
              /\ disk'.exists
              /\ disk'.text = disk.text \o ring.delimiter \o last'.content)]_vars

\* A second ring has appended an entry to the log a first ring wrote.
C12_Witness ==
    /\ last.op = "push"
    /\ last.raised = "none"
    /\ rings > 1
    /\ Len(logged) > 1
    /\ last.disk0.text # <<>>
    /\ disk.text = last.disk0.text \o ring.delimiter \o last.content

\* C13: a get call, whatever its argument, leaves the buffer and the file as
\* they were; after a get that read the file, the same get reads it again and
\* returns the same.
C13_GetChangesNothing ==
    last.op = "get"
    => /\ ring.buffer = last.buffer0
       /\ disk = last.disk0
       /\ last.read => /\ get(ring, disk, last.max_length).read
                       /\ get(ring, disk, last.max_length).ret = last.ret

\* A get read more entries from the file than the buffer holds.
C13_Witness ==
    /\ last.op = "get"
    /\ last.read
    /\ ring.buffer_size > 0
    /\ Len(last.ret) > Len(ring.buffer)

\* C14 (as claimed, for a file that can be read or is not there yet): on a
\* ring of capacity 0 with a storage location, a push of a string without the
\* separator appends it to the log and leaves the buffer empty, and get(m),
\* m >= 1, returns the last min(m, number of log entries) entries of the log.
C14_PersistsWithoutCache ==
    (/\ ring.buffer_size = 0
     /\ HasStorage
     /\ (last.disk0.exists => last.disk0.readable))
    => /\ (/\ last.op = "push"
           /\ IsStr(last.content)
           /\ ~Contains(last.content, ring.delimiter))
          => /\ last.raised = "none"
             /\ disk.text = last.disk0.text \o ring.delimiter \o last.content
             /\ ring.buffer = <<>>
       /\ (/\ last.op = "get"
           /\ Requested >= 1)
          => last.ret = LastN(LogEntries, Requested)

\* C15: a ring constructed against a file that is missing or cannot be read
\* starts empty, a get that falls through to such a file returns the empty
\* sequence and raises nothing, and neither creates or changes the file.
C15_ReadFailureIsEmpty ==
    ~(last.disk0.exists /\ last.disk0.readable)
    => /\ (last.op = "init" /\ HasStorage)
          => (ring.buffer = <<>> /\ disk = last.disk0)
       /\ (last.op = "get" /\ last.read)
          => (last.raised = "none" /\ last.ret = <<>> /\ disk = last.disk0)

\* A get fell through to a file that cannot be read while the buffer held an
\* entry.
C15_Witness ==
    /\ last.op = "get"
    /\ last.read
    /\ disk.exists
    /\ ~disk.readable
    /\ ring.buffer # <<>>

\* xs is a suffix of ys.
IsSuffix(xs, ys) == Len(xs) <= Len(ys) /\ LastN(ys, Len(xs)) = xs

\* C18 (as claimed): for a ring with a storage location that was absent or
\* empty at first and on which no push has raised, get(m1) is a suffix of
\* get(m2) whenever 0 <= m1 <= m2, and get(m) has at most m entries.
C18_GetsAgree ==
    (clean /\ HasStorage)
    => \A m1 \in 0..MaxGet, m2 \in 0..MaxGet :
          m1 <= m2 => /\ IsSuffix(get(ring, disk, AnInt(m1)).ret, get(ring, disk, AnInt(m2)).ret)
                      /\ Len(get(ring, disk, AnInt(m1)).ret) <= m1

----------------------------------------------------------------------------
(* Properties of the Translator.                                           *)

\* translate() has returned or raised.
Returned == tr.pc = "idle" /\ tr.calls > 0

\* The reply holds no JSON object anywhere: no run of units from a "{" to a
\* "}" that json.loads accepts.
NoJsonObjectIn(reply) ==
    \A i \in 1..Len(reply), j \in 1..Len(reply) :
        (i < j /\ reply[i] = "{" /\ reply[j] = "}") => ~IsJsonObject(Solid(SubSeq(reply, i, j)))

\* The reply is one object whose translated_text is a string, and nothing else.
IsOneStringObject(reply) ==
    LET t == Solid(reply)
    IN  /\ reply # <<>>
        /\ reply[1] = "{"
        /\ reply[Len(reply)] = "}"
        /\ Len(t) = 4
        /\ t[1] = "{"
        /\ t[2] = Key
        /\ t[3] \in StringLiterals
        /\ t[4] = "}"

\* C9 (as claimed, for a history location that can be written or none): when
\* the reply holds no parseable JSON object, translate() raises nothing and
\* the translated_text it returns is the target, verbatim; when the reply is
\* one object with a string translated_text, it returns that string.
C9_FallbackToTarget ==
    (Returned /\ (HasStorage => Dirname(ring.file_path) # <<>>))
    => /\ NoJsonObjectIn(tr.reply)
            => (tr.raised = "none" /\ tr.result.translated_text = tr.target)
       /\ IsOneStringObject(tr.reply)
            => (tr.raised = "none" /\ tr.result.translated_text = Decode(Solid(tr.reply)[3]))

\* The string of a fragment that is an object whose translated_text is a
\* string; <<"fails">> stands for every other fragment.
FragmentText(js) ==
    LET t == Solid(js)
    IN  IF /\ IsJsonObject(t)
           /\ Len(t) = 4
           /\ t[2] = Key
           /\ t[3] \in StringLiterals
        THEN Decode(t[3])
        ELSE <<"fails">>

\* The strings of fragments i..Len, joined by newlines.
RECURSIVE JoinedFrom(_, _)
JoinedFrom(frags, i) ==
    IF i > Len(frags) THEN <<>>
    ELSE IF i = Len(frags) THEN FragmentText(frags[i])
    ELSE FragmentText(frags[i]) \o <<"\n">> \o JoinedFrom(frags, i + 1)

\* C16: when translate() returns, translated_text is the strings of the
\* fragments found in the reply, joined by newlines in reply order, if every
\* fragment is an object with a string translated_text; if any one is not,
\* translated_text is the target.
C16_AllOrNothing ==
    (Returned /\ tr.raised = "none")
    => LET frags == FindAll(tr.reply, 1)
       IN  IF \A i \in 1..Len(frags) : FragmentText(frags[i]) # <<"fails">>
           THEN tr.result.translated_text = JoinedFrom(frags, 1)
           ELSE tr.result.translated_text = tr.target

\* A reply of two fragments, the first one good and the second one not: the
\* first is discarded with it.
C16_Witness ==
    /\ Returned
    /\ tr.raised = "none"
    /\ Len(FindAll(tr.reply, 1)) = 2
    /\ FragmentText(FindAll(tr.reply, 1)[1]) # <<"fails">>
    /\ FragmentText(FindAll(tr.reply, 1)[2]) = <<"fails">>
    /\ tr.result.translated_text = tr.target

\* The record translate() pushes for the call that is under way or just over.
RecordOfCall ==
    StrOfResult([original_text |-> tr.target,
                 translated_text |-> TranslatedText(tr.target, tr.reply)])

\* C17: while the collaborator is asked and its reply awaited, the context
\* has been fetched and the record of the present call has not been pushed
\* (the pushes made are those of the calls over). The context holds at most
\* buffer_size entries, oldest first: the most recent entries of the buffer
\* or of the log as they are before the push of this call, which are the
\* last buffer_size of the entries loaded at construction and the records
\* of the earlier calls where the log can be written; nothing without the
\* flag. Every call over, whatever the flag and the reply, has just made
\* the one push of its record.
C17_FetchThenPush ==
    /\ tr.pc \in {"invoke", "extract"}
       => /\ npush = tr.calls
          /\ Len(tr.context) <= ring.buffer_size
          /\ tr.include
                => \/ tr.context = LastN(ring.buffer, ring.buffer_size)
                   \/ tr.context = LastN(ReadableEntries, ring.buffer_size)
          /\ (tr.include /\ (HasStorage => Dirname(ring.file_path) # <<>>))
                => tr.context = LastN(appended, ring.buffer_size)
          /\ ~tr.include => tr.context = <<>>
    /\ Returned
       => /\ npush = tr.calls
          /\ last.op = "push"
          /\ last.content = RecordOfCall
          /\ appended # <<>>
          /\ appended[Len(appended)] = RecordOfCall

\* The second call's context is the record of the first call, which fell
\* back to the target, and the second call's reply is in.
C17_Witness ==
    /\ tr.pc = "extract"
    /\ tr.calls = 1
    /\ tr.include
    /\ Len(tr.context) = 1
    /\ tr.context[1] = appended[Len(appended)]
    /\ tr.context[1] = StrOfResult([original_text |-> <<"t">>, translated_text |-> <<"t">>])

====
